---- MODULE Spec2Model ----
(***************************************************************************)
(* DataCleaner (src/src/data_cleaner.py): the cleaning passes over an      *)
(* in-memory DataFrame and the clean_data orchestrator.                    *)
(*                                                                         *)
(* A DataFrame is a record                                                 *)
(*   columns : the column labels, in column order                          *)
(*   dtypes  : label -> "float64" | "int64" | "object"                     *)
(*   index   : the row labels, in row order                                *)
(*   data    : label -> the column's cells, one per row                    *)
(* A cell is missing (NaN/None), a number or a string.  Numbers are exact  *)
(* fractions n/d in lowest terms, so that the linear interpolation of      *)
(* quantile() and the mean of median() are computed, not approximated.     *)
(***************************************************************************)
EXTENDS Integers, Sequences, FiniteSets, TLC

\* ------------------------------------------------------------------ cells

NA == [k |-> "na", n |-> 0, d |-> 1, s |-> ""]

Str(x) == [k |-> "str", n |-> 0, d |-> 1, s |-> x]

Abs(i) == IF i < 0 THEN -i ELSE i

RECURSIVE GCD(_, _)
GCD(a, b) == IF b = 0 THEN Abs(a) ELSE GCD(b, a % b)

\* the number n/d (d > 0) in lowest terms
Num(n, d) ==
  LET g == GCD(n, d)
  IN  [k |-> "num", n |-> n \div g, d |-> d \div g, s |-> ""]

N(i) == Num(i, 1)

IsNA(c) == c.k = "na"

IsNum(c) == c.k = "num"

IsStr(c) == c.k = "str"

\* x < y, x + y, x - y: over the least common denominator
Less(x, y) ==
  LET g == GCD(x.d, y.d) IN x.n * (y.d \div g) < y.n * (x.d \div g)

Plus(x, y) ==
  LET g == GCD(x.d, y.d)
  IN  Num(x.n * (y.d \div g) + y.n * (x.d \div g), (x.d \div g) * y.d)

Minus(x, y) == Plus(x, [y EXCEPT !.n = -y.n])

\* x scaled by the fraction fn/fd (fd > 0), common factors taken out first
Times(x, fn, fd) ==
  LET g1 == GCD(x.n, fd)
      g2 == GCD(fn, x.d)
  IN  IF x.n = 0 \/ fn = 0 THEN Num(0, 1)
      ELSE Num((x.n \div g1) * (fn \div g2), (x.d \div g2) * (fd \div g1))

\* the order pandas sorts strings in, for the labels the model uses
Alphabet == <<"x", "y">>

StrRank(s) == CHOOSE i \in 1..Len(Alphabet) : Alphabet[i] = s

\* cell order within one column (all numbers, or all strings)
CellLess(x, y) ==
  IF IsNum(x) /\ IsNum(y) THEN Less(x, y)
  ELSE IF IsStr(x) /\ IsStr(y) THEN StrRank(x.s) < StrRank(y.s)
  ELSE FALSE

\* ------------------------------------------------------------- sequences

Range(s) == {s[i] : i \in 1..Len(s)}

Contains(s, x) == \E i \in 1..Len(s) : s[i] = x

DropNA(s) == SelectSeq(s, LAMBDA c : ~IsNA(c))

RECURSIVE Insert(_, _)
Insert(x, sorted) ==
  IF sorted = <<>> THEN <<x>>
  ELSE IF CellLess(x, Head(sorted)) THEN <<x>> \o sorted
  ELSE <<Head(sorted)>> \o Insert(x, Tail(sorted))

RECURSIVE Sort(_)
Sort(s) == IF s = <<>> THEN <<>> ELSE Insert(Head(s), Sort(Tail(s)))

\* ------------------------------------------------------------ statistics
\* A statistic returns [exc, v]: exc = "" and the value, or the exception
\* pandas raises.

Ok(v) == [exc |-> "", v |-> v]

Raise(e) == [exc |-> e, v |-> NA]

HasStr(col) == \E i \in 1..Len(col) : IsStr(col[i])

\* Series.quantile(p), p = pn/pd, linear interpolation over the non-missing
\* values: position (n-1)*p, between the order statistics around it.
\* NaN for a column with no value; TypeError for strings.
Quantile(col, pn, pd) ==
  LET xs == Sort(DropNA(col))
      n  == Len(xs)
      h  == (n - 1) * pn
      lo == h \div pd
      fr == h % pd
  IN  IF HasStr(col) THEN Raise("TypeError")
      ELSE IF n = 0 THEN Ok(NA)
      ELSE IF fr = 0 THEN Ok(xs[lo + 1])
      ELSE Ok(Plus(xs[lo + 1], Times(Minus(xs[lo + 2], xs[lo + 1]), fr, pd)))

\* variant of Median: a column with no value is an error
MedianStrict(col) ==
  LET xs == Sort(DropNA(col))
      n  == Len(xs)
  IN  IF HasStr(col) THEN Raise("TypeError")
      ELSE IF n = 0 THEN Raise("ValueError")
      ELSE IF n % 2 = 1 THEN Ok(xs[(n + 1) \div 2])
      ELSE Ok(Times(Plus(xs[n \div 2], xs[n \div 2 + 1]), 1, 2))

\* Series.median(): the middle non-missing value, or the mean of the two
\* middle ones; NaN for a column with no value; TypeError for strings.
Median(col) ==
  LET xs == Sort(DropNA(col))
      n  == Len(xs)
  IN  IF HasStr(col) THEN Raise("TypeError")
      ELSE IF n = 0 THEN Ok(NA)
      ELSE IF n % 2 = 1 THEN Ok(xs[(n + 1) \div 2])
      ELSE Ok(Times(Plus(xs[n \div 2], xs[n \div 2 + 1]), 1, 2))

Count(col, v) == Cardinality({i \in 1..Len(col) : col[i] = v})

\* Series.mode()[0]: mode() holds the most frequent non-missing values in
\* sorted order; it is empty for a column with no value, and [0] then raises.
Mode0(col) ==
  LET xs   == DropNA(col)
      best == {v \in Range(xs) : \A w \in Range(xs) : Count(xs, w) <= Count(xs, v)}
  IN  IF xs = <<>> THEN Raise("KeyError")
      ELSE Ok(CHOOSE v \in best : \A w \in best : ~CellLess(w, v))

\* Series.fillna(v): every missing cell becomes v; fillna(NaN) changes nothing
FillNA(col, v) == [i \in 1..Len(col) |-> IF IsNA(col[i]) THEN v ELSE col[i]]

\* variant of Clip: the upper bound passed as the lower one too
ClipToUpper(col, lower, upper) ==
  [i \in 1..Len(col) |->
     IF IsNA(col[i]) THEN col[i]
     ELSE IF ~IsNA(upper) /\ Less(col[i], upper) THEN upper
     ELSE IF ~IsNA(upper) /\ Less(upper, col[i]) THEN upper
     ELSE col[i]]

\* Series.clip(lower, upper): a NaN threshold is no bound; missing cells stay
Clip(col, lower, upper) ==
  [i \in 1..Len(col) |->
     IF IsNA(col[i]) THEN col[i]
     ELSE IF ~IsNA(lower) /\ Less(col[i], lower) THEN lower
     ELSE IF ~IsNA(upper) /\ Less(upper, col[i]) THEN upper
     ELSE col[i]]

\* ------------------------------------------------------------ DataFrame

NRows(df) == Len(df.index)

HasColumn(df, col) == Contains(df.columns, col)

\* self.df[col] = values
SetColumn(df, col, values) == [df EXCEPT !.data[col] = values]

\* the row at position i, as label -> cell
RowAt(df, i) == [c \in Range(df.columns) |-> df.data[c][i]]

\* the rows at the given positions, in that order
TakeRows(df, pos) ==
  [df EXCEPT !.index = [j \in 1..Len(pos) |-> df.index[pos[j]]],
             !.data  = [c \in DOMAIN df.data |->
                          [j \in 1..Len(pos) |-> df.data[c][pos[j]]]]]

\* DataFrame.drop(columns = labels)
DropColumns(df, labels) ==
  LET keep == SelectSeq(df.columns, LAMBDA c : ~Contains(labels, c))
  IN  [columns |-> keep,
       dtypes  |-> [c \in Range(keep) |-> df.dtypes[c]],
       index   |-> df.index,
       data    |-> [c \in Range(keep) |-> df.data[c]]]

\* DataFrame.select_dtypes(include = kinds).columns
SelectDtypes(df, kinds) == SelectSeq(df.columns, LAMBDA c : df.dtypes[c] \in kinds)

\* Index.any(): some label is truthy (a non-empty string)
IndexAny(idx) == \E i \in 1..Len(idx) : idx[i] # ""

\* an optional list argument: None, or a list of labels
None == [given |-> FALSE, names |-> <<>>]

List(names) == [given |-> TRUE, names |-> names]

\* `columns or default`: None and the empty list are both falsy
OrDefault(columns, default) ==
  IF columns.given /\ columns.names # <<>> THEN columns.names ELSE default

\* ------------------------------------------------------------------ log

Info(stage, col) == [level |-> "INFO", stage |-> stage, col |-> col, exc |-> ""]

Error(stage, col, exc) == [level |-> "ERROR", stage |-> stage, col |-> col, exc |-> exc]

\* what leaves a try block: the frame, the lines logged, and the exception
\* raised (exc = "" for none) with the column the loop was at
Done(df, log) == [df |-> df, log |-> log, exc |-> "", at |-> ""]

Thrown(df, log, exc, at) == [df |-> df, log |-> log, exc |-> exc, at |-> at]

\* variant of CatchAll: no except clause, the exception reaches the caller
CatchNone(stage, r) == [df |-> r.df, log |-> r.log, raised |-> r.exc]

\* `except Exception as e: logger.error(...)`: the exception is logged and
\* the method returns normally (raised = "" is what the caller sees)
CatchAll(stage, r) ==
  [df     |-> r.df,
   log    |-> IF r.exc = "" THEN r.log ELSE Append(r.log, Error(stage, r.at, r.exc)),
   raised |-> ""]

\* ------------------------------------------------------ DataCleaner passes
\* Each pass takes the cleaner's fields and its arguments and returns
\* [df, log, raised]: self.df afterwards, the lines it logged, and the
\* exception its caller sees ("" when it returns normally).

\* __init__: the classification, taken once from the dtypes of the input
NumericCols(df) == SelectDtypes(df, {"float64", "int64"})

StringCols(df) == SelectDtypes(df, {"object"})

\* variant of FillInplace: the rows with a missing cell are dropped (dropna)
DropNAInplace(df, col, value, cow) ==
  TakeRows(df, SelectSeq([i \in 1..NRows(df) |-> i], LAMBDA i : ~IsNA(df.data[col][i])))

\* self.df[col].fillna(value, inplace=True): the fill is applied to the
\* Series that self.df[col] returns.  Without copy-on-write that Series
\* shares the frame's data and the frame is filled; with copy-on-write it is
\* a temporary and the frame is left as it was.
FillInplace(df, col, value, cow) ==
  IF cow THEN df ELSE SetColumn(df, col, FillNA(df.data[col], value))

\* the loop of fill_missing over target_cols, from position i on
RECURSIVE FillLoop(_, _, _, _, _, _)
FillLoop(df, strategy, cols, i, log, cow) ==
  IF i > Len(cols) THEN Done(df, log)
  ELSE LET col == cols[i]
       IN  IF ~HasColumn(df, col) THEN Thrown(df, log, "KeyError", col)
           ELSE LET st == IF strategy = "median" THEN Median(df.data[col])
                                                 ELSE Mode0(df.data[col])
                IN  IF st.exc # "" THEN Thrown(df, log, st.exc, col)
                    ELSE FillLoop(FillInplace(df, col, st.v, cow), strategy, cols,
                                  i + 1, Append(log, Info("fill_missing", col)), cow)

FillBody(df, numeric_cols, string_cols, strategy, columns, cow) ==
  IF strategy = "median"
    THEN FillLoop(df, strategy, OrDefault(columns, numeric_cols), 1, <<>>, cow)
  ELSE IF strategy = "mode"
    THEN FillLoop(df, strategy, OrDefault(columns, string_cols), 1, <<>>, cow)
  ELSE Thrown(df, <<>>, "ValueError", "")

fill_missing(df, numeric_cols, string_cols, strategy, columns, cow) ==
  CatchAll("fill_missing", FillBody(df, numeric_cols, string_cols, strategy, columns, cow))

\* the loop of cap_outliers over target_cols, from position i on;
\* lower = <<numerator, denominator>> and so is upper
RECURSIVE CapLoop(_, _, _, _, _, _)
CapLoop(df, lower, upper, cols, i, log) ==
  IF i > Len(cols) THEN Done(df, log)
  ELSE LET col == cols[i]
       IN  IF ~HasColumn(df, col) THEN Thrown(df, log, "KeyError", col)
           ELSE LET lower_bound == Quantile(df.data[col], lower[1], lower[2])
                    upper_bound == Quantile(df.data[col], upper[1], upper[2])
                IN  IF lower_bound.exc # "" THEN Thrown(df, log, lower_bound.exc, col)
                    ELSE IF upper_bound.exc # "" THEN Thrown(df, log, upper_bound.exc, col)
                    ELSE CapLoop(SetColumn(df, col, Clip(df.data[col], lower_bound.v, upper_bound.v)),
                                 lower, upper, cols, i + 1,
                                 Append(log, Info("cap_outliers", col)))

CapBody(df, numeric_cols, lower, upper, columns) ==
  CapLoop(df, lower, upper, OrDefault(columns, numeric_cols), 1, <<>>)

cap_outliers(df, numeric_cols, lower, upper, columns) ==
  CatchAll("cap_outliers", CapBody(df, numeric_cols, lower, upper, columns))

\* DataFrame.duplicated(keep='first'), as positions kept: a row is kept
\* unless an equal row (missing equal to missing) was seen before it
RECURSIVE KeptPositions(_, _, _, _)
KeptPositions(df, i, seen, kept) ==
  IF i > NRows(df) THEN kept
  ELSE IF RowAt(df, i) \in seen THEN KeptPositions(df, i + 1, seen, kept)
  ELSE KeptPositions(df, i + 1, seen \cup {RowAt(df, i)}, Append(kept, i))

\* variant of DropDuplicates: keep='last'
DropDuplicatesLast(df) ==
  TakeRows(df, SelectSeq([i \in 1..NRows(df) |-> i],
                         LAMBDA i : \A j \in (i + 1)..NRows(df) : RowAt(df, j) # RowAt(df, i)))

DropDuplicates(df) == TakeRows(df, KeptPositions(df, 1, {}, <<>>))

remove_duplicate_rows(df) ==
  CatchAll("remove_duplicate_rows",
           Done(DropDuplicates(df), <<Info("remove_duplicate_rows", "")>>))

\* ------------------------------------------------------------ correlation
\* DataFrame.corr(): Pearson's r of two columns over the rows where both
\* have a value; NaN when either has no variance there.  r is unchanged by
\* shifting and scaling a column, so each sample is first brought to small
\* whole numbers, and |r| > t is decided exactly, by cross-multiplication.

RECURSIVE SumSeq(_)
SumSeq(s) == IF s = <<>> THEN 0 ELSE Head(s) + SumSeq(Tail(s))

RECURSIVE LcmDen(_)
LcmDen(xs) ==
  IF xs = <<>> THEN 1
  ELSE LET l == LcmDen(Tail(xs)) IN (Head(xs).d \div GCD(Head(xs).d, l)) * l

RECURSIVE GcdSeq(_)
GcdSeq(s) == IF s = <<>> THEN 0 ELSE GCD(Head(s), GcdSeq(Tail(s)))

MinSeq(s) == CHOOSE m \in Range(s) : \A v \in Range(s) : m <= v

\* the sample xs (numbers) shifted to start at 0 and scaled to whole numbers
\* without a common factor
Whole(xs) ==
  LET l    == LcmDen(xs)
      ints == [j \in 1..Len(xs) |-> xs[j].n * (l \div xs[j].d)]
      m    == MinSeq(ints)
      sh   == [j \in 1..Len(xs) |-> ints[j] - m]
      g    == GcdSeq(sh)
  IN  IF g = 0 THEN sh ELSE [j \in 1..Len(xs) |-> sh[j] \div g]

\* abs(corr(x, y)) > tn/td; a NaN correlation compares False
CorrAbove(x, y, tn, td) ==
  LET pos == SelectSeq([i \in 1..Len(x) |-> i], LAMBDA i : ~IsNA(x[i]) /\ ~IsNA(y[i]))
      n   == Len(pos)
      xs  == IF n = 0 THEN <<>> ELSE Whole([j \in 1..n |-> x[pos[j]]])
      ys  == IF n = 0 THEN <<>> ELSE Whole([j \in 1..n |-> y[pos[j]]])
      sx  == SumSeq(xs)
      sy  == SumSeq(ys)
      cov == n * SumSeq([j \in 1..n |-> xs[j] * ys[j]]) - sx * sy
      vx  == n * SumSeq([j \in 1..n |-> xs[j] * xs[j]]) - sx * sx
      vy  == n * SumSeq([j \in 1..n |-> ys[j] * ys[j]]) - sy * sy
  IN  IF vx = 0 \/ vy = 0 THEN FALSE
      ELSE td * td * cov * cov > tn * tn * vx * vy

\* [col for col in upper.columns if any(upper[col].abs() > threshold)]:
\* upper keeps corr(i, j) for i above the diagonal only, i.e. i before j in
\* the order of numeric_cols
ToDrop(df, numeric_cols, threshold) ==
  SelectSeq(numeric_cols,
            LAMBDA cj : \E i, j \in 1..Len(numeric_cols) :
                          /\ numeric_cols[j] = cj
                          /\ i < j
                          /\ CorrAbove(df.data[numeric_cols[i]], df.data[cj],
                                       threshold[1], threshold[2]))

\* self.df[self.numeric_cols] raises KeyError when a label of numeric_cols
\* is not a column of self.df
PruneBody(df, numeric_cols, threshold) ==
  IF ~IndexAny(numeric_cols)
    THEN Done(df, <<Info("remove_highly_correlated_features", "")>>)
  ELSE IF \E i \in 1..Len(numeric_cols) : ~HasColumn(df, numeric_cols[i])
    THEN Thrown(df, <<>>, "KeyError",
                numeric_cols[CHOOSE i \in 1..Len(numeric_cols) :
                               /\ ~HasColumn(df, numeric_cols[i])
                               /\ \A j \in 1..(i - 1) : HasColumn(df, numeric_cols[j])])
  ELSE Done(DropColumns(df, ToDrop(df, numeric_cols, threshold)),
            <<Info("remove_highly_correlated_features", "")>>)

remove_highly_correlated_features(df, numeric_cols, threshold) ==
  CatchAll("remove_highly_correlated_features", PruneBody(df, numeric_cols, threshold))

\* ------------------------------------------------------------------ state

VARIABLES
  df,             \* self.df
  numeric_cols,   \* self.numeric_cols, set in __init__
  string_cols,    \* self.string_cols, set in __init__
  copy_on_write,  \* whether pandas runs with copy-on-write
  call,           \* the pass invoked last, with its arguments and outcome
  before,         \* self.df when that pass was invoked
  log,            \* the lines logged by the current (or last) top-level call
  pc,             \* where clean_data stands: idle, cap, fill, dedup, prune, return, done
  strategy,       \* clean_data's strategy argument
  entry,          \* self.df when clean_data was entered
  trace,          \* the passes clean_data has run: [stage, in, out]
  ret,            \* what clean_data returned: "self.df", "None", or "" before it returns
  caps            \* how many times cap_outliers has run

vars == <<df, numeric_cols, string_cols, copy_on_write, call, before, log, pc,
          strategy, entry, trace, ret, caps>>

\* ----------------------------------------------------------------- inputs

\* cap_outliers may run this many times in one behaviour
MaxCaps == 2

DefaultLower == <<1, 100>>

DefaultUpper == <<99, 100>>

DefaultThreshold == <<9, 10>>

DefaultStrategy == "median"

\* the cells a column of the input may hold
SeedCells ==
  [a |-> {<<N(0), N(0), N(1)>>, <<N(0), NA, N(2)>>},
   b |-> {<<N(0), N(0), N(1)>>, <<N(0), N(1), N(2)>>},
   c |-> {<<N(0), N(1), N(2)>>, <<N(0), N(1), N(1)>>, <<NA, NA, NA>>},
   s |-> {<<Str("y"), Str("x"), NA>>, <<NA, NA, NA>>}]

SeedDtypes == [a |-> "float64", b |-> "float64", c |-> "float64", s |-> "object"]

Schemas == {<<"a", "b", "c", "s">>, <<"a", "s">>, <<"s">>}

AllSeedCells == UNION {SeedCells[c] : c \in DOMAIN SeedCells}

InputFrames ==
  UNION {{[columns |-> sch,
           dtypes  |-> [c \in Range(sch) |-> SeedDtypes[c]],
           index   |-> <<0, 1, 2>>,
           data    |-> f] :
            f \in {g \in [Range(sch) -> AllSeedCells] : \A c \in Range(sch) : g[c] \in SeedCells[c]}} :
         sch \in Schemas}

ColumnArgs == {None, List(<<>>), List(<<"zz", "a">>), List(<<"s", "a">>)}

PercentileArgs == {<<DefaultLower, DefaultUpper>>, <<<<1, 2>>, <<1, 1>>>>}

StrategyArgs == {DefaultStrategy, "mode", "mean"}

ThresholdArgs == {DefaultThreshold, <<4, 5>>}

\* ---------------------------------------------------------------- actions

NoCall == [op |-> "", strategy |-> "", columns |-> None, lower |-> <<0, 1>>,
           upper |-> <<0, 1>>, threshold |-> <<0, 1>>, raised |-> "", repeat |-> FALSE]

\* the invocation c with its outcome; a cap_outliers invocation is marked as
\* a repeat when the pass invoked just before it (prev) was cap_outliers
\* with the same arguments
Invoked(c, prev, r) ==
  [c EXCEPT !.raised = r.raised,
            !.repeat = (/\ c.op = "cap_outliers"
                        /\ [prev EXCEPT !.raised = "", !.repeat = FALSE] = c)]

\* DataCleaner(df)
Init ==
  \E frame \in InputFrames, cow \in BOOLEAN :
    /\ df = frame
    /\ numeric_cols = NumericCols(frame)
    /\ string_cols = StringCols(frame)
    /\ copy_on_write = cow
    /\ call = NoCall
    /\ before = frame
    /\ log = <<>>
    /\ pc = "idle"
    /\ strategy = ""
    /\ entry = frame
    /\ trace = <<>>
    /\ ret = ""
    /\ caps = 0

\* no clean_data call is under way
Idle == pc \in {"idle", "done"}

\* a pass called by the user of the cleaner, outside clean_data
Direct(c, r) ==
  /\ df' = r.df
  /\ call' = Invoked(c, call, r)
  /\ before' = df
  /\ log' = r.log
  /\ pc' = "idle"
  /\ strategy' = ""
  /\ entry' = r.df
  /\ trace' = <<>>
  /\ ret' = ""
  /\ UNCHANGED <<numeric_cols, string_cols, copy_on_write>>

CallCapOutliers(lower, upper, columns) ==
  /\ Idle
  /\ caps < MaxCaps
  /\ caps' = caps + 1
  /\ Direct([NoCall EXCEPT !.op = "cap_outliers", !.lower = lower, !.upper = upper,
                           !.columns = columns],
            cap_outliers(df, numeric_cols, lower, upper, columns))

CallFillMissing(strat, columns) ==
  /\ Idle
  /\ UNCHANGED caps
  /\ Direct([NoCall EXCEPT !.op = "fill_missing", !.strategy = strat, !.columns = columns],
            fill_missing(df, numeric_cols, string_cols, strat, columns, copy_on_write))

CallRemoveDuplicateRows ==
  /\ Idle
  /\ UNCHANGED caps
  /\ Direct([NoCall EXCEPT !.op = "remove_duplicate_rows"], remove_duplicate_rows(df))

CallRemoveHighlyCorrelated(threshold) ==
  /\ Idle
  /\ UNCHANGED caps
  /\ Direct([NoCall EXCEPT !.op = "remove_highly_correlated_features",
                           !.threshold = threshold],
            remove_highly_correlated_features(df, numeric_cols, threshold))

\* clean_data(strategy), entered: "Starting data cleaning process"
CleanDataStart(strat) ==
  /\ Idle
  /\ caps < MaxCaps
  /\ pc' = "cap"
  /\ strategy' = strat
  /\ entry' = df
  /\ trace' = <<>>
  /\ ret' = ""
  /\ log' = <<Info("clean_data", "")>>
  /\ UNCHANGED <<df, numeric_cols, string_cols, copy_on_write, call, before, caps>>

\* one line of clean_data's try block: the pass is called on self.df; an
\* exception it raises ends clean_data in its except block, which logs the
\* error and falls off the end (the call returns None)
Step(c, r, next) ==
  /\ df' = r.df
  /\ call' = Invoked(c, call, r)
  /\ before' = df
  /\ trace' = Append(trace, [stage |-> c.op, in |-> df, out |-> r.df])
  /\ IF r.raised = ""
       THEN /\ pc' = next
            /\ log' = log \o r.log
            /\ ret' = ret
       ELSE /\ pc' = "done"
            /\ log' = (log \o r.log) \o <<Error("clean_data", "", r.raised)>>
            /\ ret' = "None"
  /\ UNCHANGED <<numeric_cols, string_cols, copy_on_write, strategy, entry>>

\* self.cap_outliers()
CleanDataCap ==
  /\ pc = "cap"
  /\ caps' = caps + 1
  /\ Step([NoCall EXCEPT !.op = "cap_outliers", !.lower = DefaultLower,
                         !.upper = DefaultUpper],
          cap_outliers(df, numeric_cols, DefaultLower, DefaultUpper, None), "fill")

\* self.fill_missing(strategy=strategy)
CleanDataFill ==
  /\ pc = "fill"
  /\ UNCHANGED caps
  /\ Step([NoCall EXCEPT !.op = "fill_missing", !.strategy = strategy],
          fill_missing(df, numeric_cols, string_cols, strategy, None, copy_on_write),
          "dedup")

\* self.remove_duplicate_rows()
CleanDataDedup ==
  /\ pc = "dedup"
  /\ UNCHANGED caps
  /\ Step([NoCall EXCEPT !.op = "remove_duplicate_rows"], remove_duplicate_rows(df), "prune")

\* self.remove_highly_correlated_features()
CleanDataPrune ==
  /\ pc = "prune"
  /\ UNCHANGED caps
  /\ Step([NoCall EXCEPT !.op = "remove_highly_correlated_features",
                         !.threshold = DefaultThreshold],
          remove_highly_correlated_features(df, numeric_cols, DefaultThreshold), "return")

\* "Data cleaning process completed"; return self.df
CleanDataReturn ==
  /\ pc = "return"
  /\ pc' = "done"
  /\ ret' = "self.df"
  /\ log' = Append(log, Info("clean_data", ""))
  /\ UNCHANGED <<df, numeric_cols, string_cols, copy_on_write, call, before,
                 strategy, entry, trace, caps>>

Next ==
  \/ \E p \in PercentileArgs, cols \in ColumnArgs : CallCapOutliers(p[1], p[2], cols)
  \/ \E st \in StrategyArgs, cols \in ColumnArgs : CallFillMissing(st, cols)
  \/ CallRemoveDuplicateRows
  \/ \E th \in ThresholdArgs : CallRemoveHighlyCorrelated(th)
  \/ \E st \in StrategyArgs : CleanDataStart(st)
  \/ CleanDataCap
  \/ CleanDataFill
  \/ CleanDataDedup
  \/ CleanDataPrune
  \/ CleanDataReturn

Spec == Init /\ [][Next]_vars

\* ------------------------------------------------------------ properties

Valid == {"median", "mode"}

StageOrder == <<"cap_outliers", "fill_missing", "remove_duplicate_rows",
                "remove_highly_correlated_features">>

\* how many passes clean_data has behind it at each position
StagesRun ==
  [cap |-> 0, fill |-> 1, dedup |-> 2, prune |-> 3, return |-> 4, done |-> 4]

Errors(stage) == {i \in 1..Len(log) : log[i].level = "ERROR" /\ log[i].stage = stage}

Processed(stage, col) ==
  \E i \in 1..Len(log) : log[i] = Info(stage, col)

AllMissing(frame, col) == \A i \in 1..NRows(frame) : IsNA(frame.data[col][i])

\* C1: for strategy median or mode, clean_data runs cap_outliers,
\* fill_missing(strategy), remove_duplicate_rows and
\* remove_highly_correlated_features once each, in that order, each on the
\* frame the one before left, and returns self.df (never None), also when a
\* pass logged a failure.
C1_StagesInOrder ==
  (pc # "idle" /\ strategy \in Valid) =>
    /\ [i \in 1..Len(trace) |-> trace[i].stage] = SubSeq(StageOrder, 1, StagesRun[pc])
    /\ \A i \in 1..Len(trace) :
         trace[i].in = IF i = 1 THEN entry ELSE trace[i - 1].out
    /\ df = IF trace = <<>> THEN entry ELSE trace[Len(trace)].out
    /\ (pc = "dedup" => call.op = "fill_missing" /\ call.strategy = strategy)
    /\ (pc = "done" => ret = "self.df")
    /\ (pc # "done" => ret = "")

C1_Witness ==
  /\ pc = "done"
  /\ strategy \in Valid
  /\ ret = "self.df"
  /\ Len(trace) = 4
  /\ Errors("fill_missing") # {}
  /\ df # entry

\* C2: fill_missing with a strategy other than median and mode raises to its
\* caller and leaves the frame unchanged; clean_data with such a strategy
\* aborts and runs no pass after fill_missing.
C2_InvalidStrategyRaises ==
  /\ (call.op = "fill_missing" /\ call.strategy \notin Valid) =>
       (call.raised # "" /\ df = before)
  /\ (pc # "idle" /\ strategy \notin Valid) =>
       (pc \notin {"dedup", "prune", "return"} /\ (pc = "done" => ret = "None"))

\* the columns a cap_outliers or fill_missing invocation iterates over
Targets(c) ==
  OrDefault(c.columns,
            IF c.op = "fill_missing" /\ c.strategy = "mode" THEN string_cols
                                                              ELSE numeric_cols)

\* the column can be processed: it is in the frame and its statistic is defined
Sound(c, frame, col) ==
  /\ HasColumn(frame, col)
  /\ IF c.op = "cap_outliers"
       THEN /\ Quantile(frame.data[col], c.lower[1], c.lower[2]).exc = ""
            /\ Quantile(frame.data[col], c.upper[1], c.upper[2]).exc = ""
     ELSE IF c.strategy = "median" THEN Median(frame.data[col]).exc = ""
     ELSE Mode0(frame.data[col]).exc = ""

\* C3: in cap_outliers and fill_missing a column that fails (absent from the
\* frame, or its statistic undefined) is logged and skipped, and every other
\* target column is still processed.
C3_BadColumnSkipped ==
  (/\ pc # "cap"   \* log holds the lines of the invocation in call
   /\ (call.op = "cap_outliers") \/ (call.op = "fill_missing" /\ call.strategy \in Valid)) =>
    \A i \in 1..Len(Targets(call)) :
      Sound(call, before, Targets(call)[i]) => Processed(call.op, Targets(call)[i])

\* the numeric columns that were entirely missing when clean_data was entered
MissingAtEntry ==
  {x \in Range(numeric_cols) : HasColumn(entry, x) /\ AllMissing(entry, x)}

PipelineCompleted ==
  /\ ret = "self.df"
  /\ Len(trace) = 4
  /\ trace[3].stage = "remove_duplicate_rows"
  /\ trace[4].stage = "remove_highly_correlated_features"

ExpectedDrop(frame, threshold) ==
  LET nc == NumericCols(frame)
  IN  {nc[j] : j \in {k \in 1..Len(nc) :
                        \E i \in 1..(k - 1) :
                          CorrAbove(frame.data[nc[i]], frame.data[nc[k]],
                                    threshold[1], threshold[2])}}

\* C5: remove_highly_correlated_features drops exactly the numeric columns
\* that correlate above the threshold with an earlier numeric column, the
\* correlations taken once from the frame it was called on; the first
\* numeric column and the non-numeric columns stay.
C5_PruneDropsCorrelated ==
  (call.op = "remove_highly_correlated_features") =>
    /\ df.columns = SelectSeq(before.columns,
                              LAMBDA c : c \notin ExpectedDrop(before, call.threshold))
    /\ \A c \in Range(df.columns) : df.data[c] = before.data[c]

\* the bound of a column lies on one of its values: the percentile position
\* (n - 1) * p is a whole number
OnValue(col, p) == ((Len(DropNA(col)) - 1) * p[1]) % p[2] = 0

\* C6 as stated: cap_outliers called again with the same arguments leaves
\* the frame as the first call left it.
C6_CapTwiceSame ==
  (call.op = "cap_outliers" /\ call.repeat) => df = before

\* C6 amended: cap_outliers called again with the same arguments leaves the
\* frame as the first call left it when both bounds of every target column
\* lie on values of the column (its percentile positions are whole numbers);
\* and in every call a value within the bounds computed by that call is
\* unchanged by it.
C6_CapTwiceSameOnValues ==
  (call.op = "cap_outliers") =>
    /\ (call.repeat /\ \A c \in Range(Targets(call)) :
                         HasColumn(before, c) =>
                           OnValue(before.data[c], call.lower) /\ OnValue(before.data[c], call.upper))
         => df = before
    /\ \A c \in Range(df.columns) : \A i \in 1..NRows(df) :
         LET lo == Quantile(before.data[c], call.lower[1], call.lower[2])
             hi == Quantile(before.data[c], call.upper[1], call.upper[2])
             v  == before.data[c][i]
         IN  (lo.exc = "" /\ hi.exc = "" /\ IsNum(v) /\ IsNum(lo.v) /\ IsNum(hi.v)
              /\ ~Less(v, lo.v) /\ ~Less(hi.v, v))
               => df.data[c][i] = v

C6_Witness ==
  /\ call.op = "cap_outliers"
  /\ call.repeat
  /\ call.lower = <<1, 2>>
  /\ call.columns = None
  /\ HasColumn(df, "b")
  /\ df.data["b"] = <<N(1), N(1), N(2)>>
  /\ Processed("cap_outliers", "b")
  /\ df = before

\* position of a row label in an index
PosIn(index, label) == CHOOSE i \in 1..Len(index) : index[i] = label

\* the row of frame at position i is not equal to any row before it
FirstOfItsKind(frame, i) == \A j \in 1..(i - 1) : RowAt(frame, j) # RowAt(frame, i)

\* C7: remove_duplicate_rows keeps exactly the first occurrence of each
\* distinct row (missing equal to missing), in the original order; the row
\* count does not grow; running it again on the result changes nothing.
C7_KeepsFirstOccurrences ==
  (call.op = "remove_duplicate_rows") =>
    /\ df.columns = before.columns
    /\ df.index = SelectSeq(before.index,
                            LAMBDA l : FirstOfItsKind(before, PosIn(before.index, l)))
    /\ \A k \in 1..NRows(df) : RowAt(df, k) = RowAt(before, PosIn(before.index, df.index[k]))
    /\ NRows(df) <= NRows(before)
    /\ remove_duplicate_rows(df).df = df

C7_Witness ==
  /\ call.op = "remove_duplicate_rows"
  /\ NRows(before) = 3
  /\ df.index = <<0, 2>>
  /\ \E c \in Range(df.columns) : IsNA(before.data[c][1]) /\ IsNA(before.data[c][2])

IsSubSeq(s, t) == s = SelectSeq(t, LAMBDA x : x \in Range(s))

\* C8: every pass leaves the columns a subsequence of what they were and the
\* rows a subsequence of what they were; only
\* remove_highly_correlated_features changes the columns and only
\* remove_duplicate_rows changes the rows, also when cap_outliers or
\* fill_missing fails part-way or is given a name that is not a column.
C8_FrameOfPasses ==
  (call.op # "") =>
    /\ IsSubSeq(df.columns, before.columns)
    /\ IsSubSeq(df.index, before.index)
    /\ DOMAIN df.data = Range(df.columns)
    /\ \A c \in Range(df.columns) : Len(df.data[c]) = NRows(df)
    /\ (call.op # "remove_highly_correlated_features" => df.columns = before.columns)
    /\ (call.op # "remove_duplicate_rows" => df.index = before.index)

C8_Witness ==
  /\ call.op = "cap_outliers"
  /\ Errors("cap_outliers") # {}
  /\ df # before
  /\ df.columns = before.columns
  /\ df.index = before.index

\* C9: with an explicit columns argument (the empty list included)
\* cap_outliers and fill_missing change no column outside that list.
C9_OnlyListedColumns ==
  (call.op \in {"cap_outliers", "fill_missing"} /\ call.columns.given) =>
    \A c \in Range(before.columns) :
      c \notin Range(call.columns.names) => df.data[c] = before.data[c]

\* C10: every label of numeric_cols and string_cols is a column of self.df.
C10_ClassificationCurrent ==
  \A c \in Range(numeric_cols) \cup Range(string_cols) : HasColumn(df, c)

====
